---- MODULE Spec2Model ----
(***************************************************************************)
(* The cookie scanner service of apps/cookie-scanner/main.py: the          *)
(* cookie_scans and scanned_cookies tables, the create_scan and list_scans *)
(* handlers, and scan_worker, the background task create_scan schedules.   *)
(*                                                                         *)
(* A nullable value (Python None, SQL NULL) is the empty tuple; a present  *)
(* value v is the one-element tuple <<v>>.  A cookie name is a tuple of    *)
(* one-character strings, so that lower-casing and substring search are    *)
(* computed rather than assumed.                                           *)
(*                                                                         *)
(* Specifications: Spec (requests and their runs), SpecList (list_scans    *)
(* over a crowded table), SpecRead (get_scan and list_scans beside a run), *)
(* SpecLive (Spec with database operations succeeding, and fairness),      *)
(* SpecPool (the connection pool with more units of work than              *)
(* connections), SpecCat (categorize_cookie) and SpecMap (the mapping      *)
(* loop).                                                                  *)
(***************************************************************************)
EXTENDS Integers, Sequences, FiniteSets, TLC

VARIABLES
    cookie_scans,       \* table cookie_scans as committed: scan id -> row
    scanned_cookies,    \* table scanned_cookies as committed: a set of rows
    pc,                 \* scan id -> position of its request / its scan_worker
    bg_tasks,           \* scan id -> scan_worker tasks added to bg_tasks, not yet started
    row,                \* create_scan local row: what INSERT ... RETURNING * gave
    scan_error,         \* scan_worker local scan_error
    raw_cookies,        \* scan_worker local raw_cookies (None before context.cookies())
    extracted_cookies,  \* scan_worker local extracted_cookies
    raised,             \* history: str(e) of the last exception each handler caught
    tx,                 \* scan id -> uncommitted writes of its terminal transaction
    clock,              \* the database's NOW() / datetime.now()
    listing,            \* the last response of list_scans (None when none is pending)
    browser,            \* scan id -> the browser its scan_worker launched (None before)
    reader,             \* the get_scan request in progress or answered (None when none)
    pool,               \* the connection pool under load (the pool specification)
    probe               \* input and result of a function applied on its own

vars == <<cookie_scans, scanned_cookies, pc, bg_tasks, row, scan_error, raw_cookies,
          extracted_cookies, raised, tx, clock, listing, browser, reader, pool, probe>>

\* The variables of the read handlers and of the specifications of single functions.
aux == <<reader, pool, probe>>

-----------------------------------------------------------------------------
(* Bounds of the model *)

MaxScans == 2        \* scan requests in the lifecycle specification
MaxJar == 2          \* cookies in a browser context's jar
ListPrefill == 49    \* scans one tenant already has when the listing specification starts
MaxListNew == 3      \* scan requests made in the listing specification

-----------------------------------------------------------------------------
(* Nullable values *)

None == <<>>
Some(v) == <<v>>
Val(o) == o[1]

\* Python truthiness of an Optional[str]: None and "" are both falsy.
Truthy(o) == o # None /\ Val(o) # ""

-----------------------------------------------------------------------------
(* categorize_cookie *)

UpperCase == <<"A","B","C","D","E","F","G","H","I","J","K","L","M",
               "N","O","P","Q","R","S","T","U","V","W","X","Y","Z">>
LowerCase == <<"a","b","c","d","e","f","g","h","i","j","k","l","m",
               "n","o","p","q","r","s","t","u","v","w","x","y","z">>

\* str.lower() on one character.
lower(ch) ==
    IF \E i \in 1..Len(UpperCase) : UpperCase[i] = ch
    THEN LowerCase[CHOOSE i \in 1..Len(UpperCase) : UpperCase[i] = ch]
    ELSE ch

\* str.lower() left out: the name is matched as it is spelled.
LowerNot(name) == name

\* n = name.lower()
Lower(name) == [i \in 1..Len(name) |-> lower(name[i])]

\* Python's `s in n` for strings.
Contains(n, s) ==
    \E i \in 0..(Len(n) - Len(s)) : \A j \in 1..Len(s) : n[i + j] = s[j]

AnalyticsKeys ==
    << <<"_","g","a">>, <<"_","g","i","d">>, <<"_","g","a","t">>,
       <<"u","t","m","a">>, <<"u","t","m","b">>, <<"u","t","m","c">>,
       <<"u","t","m","z">>, <<"_","h","j","i","d">>,
       <<"_","h","j","s","e","s","s","i","o","n">>,
       <<"_","h","j","i","n","c","l","u","d","e","d">> >>

MarketingKeys ==
    << <<"f","b","p">>, <<"_","f","b","c">>, <<"i","d","e">>,
       <<"t","e","s","t","_","c","o","o","k","i","e">>, <<"m","u","i","d">>,
       <<"a","n","o","n","c","h","k">>, <<"_","t","t","p">>, <<"f","r","_">> >>

FunctionalKeys ==
    << <<"l","a","n","g">>, <<"l","o","c","a","l","e">>,
       <<"l","a","n","g","u","a","g","e">>,
       <<"s","e","e","n","_","c","o","o","k","i","e">>,
       <<"c","o","o","k","i","e","_","n","o","t","i","c","e">>,
       <<"c","o","o","k","i","e","_","c","o","n","s","e","n","t">>,
       <<"g","d","p","r">> >>

NecessaryKeys ==
    << <<"s","e","s","s","i","o","n">>, <<"c","s","r","f">>, <<"x","s","r","f">>,
       <<"j","s","e","s","s","i","o","n","i","d">>,
       <<"p","h","p","s","e","s","s","i","d">>, <<"a","s","p",".","n","e","t","_">>,
       <<"c","f","_","c","l","e","a","r","a","n","c","e">>,
       <<"_","_","c","f","d","u","i","d">>, <<"t","o","k","e","n">>,
       <<"a","u","t","h">> >>

AnyKey(keys, n) == \E k \in 1..Len(keys) : Contains(n, keys[k])

\* The four loops with the Necessary one first.
categorize_cookie_necessary_first(name) ==
    LET n == Lower(name) IN
    IF AnyKey(NecessaryKeys, n) THEN "Necessary"
    ELSE IF AnyKey(AnalyticsKeys, n) THEN "Analytics"
    ELSE IF AnyKey(MarketingKeys, n) THEN "Marketing"
    ELSE IF AnyKey(FunctionalKeys, n) THEN "Functional"
    ELSE "Unknown"

categorize_cookie(name) ==
    LET n == Lower(name) IN
    IF AnyKey(AnalyticsKeys, n) THEN "Analytics"
    ELSE IF AnyKey(MarketingKeys, n) THEN "Marketing"
    ELSE IF AnyKey(FunctionalKeys, n) THEN "Functional"
    ELSE IF AnyKey(NecessaryKeys, n) THEN "Necessary"
    ELSE "Unknown"

-----------------------------------------------------------------------------
(* Rows, raw cookies and the mapping loop of scan_worker *)

ZeroUuid == "00000000-0000-0000-0000-000000000000"

\* The header X-Internal-Org-Id of a request: absent, empty, or a tenant id.
Absent == None
Headers == {Absent, Some(""), Some("A"), Some("B")}

get_tenant_from_req(hdr) ==
    LET tid == IF hdr = Absent THEN "" ELSE Val(hdr) IN
    IF tid = "" THEN ZeroUuid ELSE tid

\* The largest timestamp datetime.fromtimestamp accepts; beyond it the call raises.
MaxTimestamp == 9
RangeErrorText == "year is out of range"

\* Raw cookies as context.cookies() reports them (name and expires; the other
\* attributes are copied through unchanged and are left out).
CkGa  == [name |-> <<"_","g","a">>, expires |-> Some(5)]
CkFar == [name |-> <<"l","a","n","g">>, expires |-> Some(MaxTimestamp + 1)]
RawCookies == {CkGa, CkFar}

\* The jars a browser context can hold: up to MaxJar cookies, in order.
Jars == UNION {[1..n -> RawCookies] : n \in 0..MaxJar}

\* c.get('expires', -1)
Expires(c) == IF c.expires = None THEN -1 ELSE Val(c.expires)

\* Does datetime.fromtimestamp(c['expires'], timezone.utc) raise for this cookie?
MapRaises(c) == Expires(c) > 0 /\ Expires(c) > MaxTimestamp

\* The mapping with `>= 0` for `> 0` in the test of the expiry.
MapCookieNonNegative(c, scan_id, k) ==
    [id         |-> <<scan_id, k>>,
     scan_id    |-> scan_id,
     name       |-> c.name,
     expiration |-> IF Expires(c) >= 0 THEN Some(Expires(c)) ELSE None,
     source     |-> "headless_browser",
     category   |-> categorize_cookie(c.name)]

\* One iteration of the mapping loop; k stands for the fresh uuid4 of the record.
MapCookie(c, scan_id, k) ==
    [id         |-> <<scan_id, k>>,
     scan_id    |-> scan_id,
     name       |-> c.name,
     expiration |-> IF Expires(c) > 0 THEN Some(Expires(c)) ELSE None,
     source     |-> "headless_browser",
     category   |-> categorize_cookie(c.name)]

\* The loop `for c in raw_cookies`: the records appended before the first
\* iteration that raises, and the text of that exception (None if none raised).
RECURSIVE MapLoop(_, _, _, _)
MapLoop(raw, scan_id, k, acc) ==
    IF k > Len(raw) THEN [rows |-> acc, err |-> None]
    ELSE IF MapRaises(raw[k]) THEN [rows |-> acc, err |-> Some(RangeErrorText)]
    ELSE MapLoop(raw, scan_id, k + 1, Append(acc, MapCookie(raw[k], scan_id, k)))

MapCookies(raw, scan_id) == MapLoop(raw, scan_id, 1, <<>>)

\* final_status = 'failed' if scan_error else 'completed'
final_status(err) == IF Truthy(err) THEN "failed" ELSE "completed"

\* The texts str(e) of the exceptions a browser step can raise.
ExcTexts == {"", "Timeout 60000ms exceeded"}

-----------------------------------------------------------------------------
(* SQL statements *)

\* INSERT INTO cookie_scans (id, tenant_id, url, status, created_at, updated_at)
\* VALUES ($1, $2, $3, 'pending', NOW(), NOW())
NewScanRow(id, tid, now) ==
    [id |-> id, tenant_id |-> tid, status |-> "pending", error |-> None,
     created_at |-> Some(now), started_at |-> None, completed_at |-> None,
     updated_at |-> Some(now)]

\* UpdateRunning without its WHERE clause.
UpdateRunningNoWhere(tbl, id, now) ==
    [i \in DOMAIN tbl |->
        [tbl[i] EXCEPT !.status = "running", !.started_at = Some(now),
                       !.updated_at = Some(now)]]

\* UpdateRunning without started_at = $2.
UpdateRunningNoStamp(tbl, id, now) ==
    [i \in DOMAIN tbl |->
        IF tbl[i].id = id
        THEN [tbl[i] EXCEPT !.status = "running", !.updated_at = Some(now)]
        ELSE tbl[i]]

\* UPDATE cookie_scans SET status = 'running', started_at = $2, updated_at = $2
\* WHERE id = $1
UpdateRunning(tbl, id, now) ==
    [i \in DOMAIN tbl |->
        IF tbl[i].id = id
        THEN [tbl[i] EXCEPT !.status = "running", !.started_at = Some(now),
                            !.updated_at = Some(now)]
        ELSE tbl[i]]

\* UpdateTerminal without its WHERE clause.
UpdateTerminalNoWhere(tbl, id, status, err, now) ==
    [i \in DOMAIN tbl |->
        [tbl[i] EXCEPT !.status = status, !.error = err,
                       !.completed_at = Some(now), !.updated_at = Some(now)]]

\* UPDATE cookie_scans SET status = $2, error = $3, completed_at = $4,
\* updated_at = $4 WHERE id = $1
UpdateTerminal(tbl, id, status, err, now) ==
    [i \in DOMAIN tbl |->
        IF tbl[i].id = id
        THEN [tbl[i] EXCEPT !.status = status, !.error = err,
                            !.completed_at = Some(now), !.updated_at = Some(now)]
        ELSE tbl[i]]

Range(seq) == {seq[i] : i \in 1..Len(seq)}

\* conn.copy_records_to_table('scanned_cookies', records = [...])
CopyRecords(tbl, records) == tbl \cup Range(records)

-----------------------------------------------------------------------------
(* Transactions: `async with conn.transaction()` *)

\* A statement executed inside the transaction of scan s.
UpdateStmt(id, status, err, now) ==
    [op |-> "update", id |-> id, status |-> status, error |-> err, now |-> now]
CopyStmt(records) == [op |-> "copy", records |-> records]

\* The effect of one statement on the tables db = [scans, cookies].
ApplyStmt(db, w) ==
    IF w.op = "update"
    THEN [db EXCEPT !.scans = UpdateTerminal(db.scans, w.id, w.status, w.error, w.now)]
    ELSE [db EXCEPT !.cookies = CopyRecords(db.cookies, w.records)]

RECURSIVE ApplyAll(_, _)
ApplyAll(db, ws) ==
    IF ws = <<>> THEN db ELSE ApplyAll(ApplyStmt(db, Head(ws)), Tail(ws))

\* Execute as it would be with no transaction around it: the write lands at once.
ExecuteAutocommit(db, t, w) == [db |-> ApplyStmt(db, w), tx |-> Append(t, w)]

\* Executing a statement inside the transaction: other connections keep seeing
\* the committed tables db; the write is held in the transaction t.
Execute(db, t, w) == [db |-> db, tx |-> Append(t, w)]

\* Leaving the transaction block normally: every held write lands at once.
Commit(db, t) == ApplyAll(db, t)

\* A rollback that keeps the writes made before the exception.
RollbackKeeps(db, t) == ApplyAll(db, t)

\* Leaving the transaction block by an exception: no held write lands.
Rollback(db, t) == db

Db == [scans |-> cookie_scans, cookies |-> scanned_cookies]

-----------------------------------------------------------------------------
(* Initial state: empty tables, no request made *)

InitFor(n) ==
    /\ cookie_scans = <<>>
    /\ scanned_cookies = {}
    /\ pc = [s \in 1..n |-> "new"]
    /\ bg_tasks = [s \in 1..n |-> 0]
    /\ row = [s \in 1..n |-> None]
    /\ scan_error = [s \in 1..n |-> None]
    /\ raw_cookies = [s \in 1..n |-> None]
    /\ extracted_cookies = [s \in 1..n |-> <<>>]
    /\ raised = [s \in 1..n |-> [nav |-> None, outer |-> None, idle |-> FALSE]]
    /\ tx = [s \in 1..n |-> <<>>]
    /\ clock = 0
    /\ listing = None
    /\ browser = [s \in 1..n |-> None]
    /\ reader = None
    /\ pool = None
    /\ probe = None

Init == InitFor(MaxScans)

Ids == DOMAIN pc

\* scan_id = str(uuid.uuid4()): an id no request has used.
FreshId(s) == pc[s] = "new" /\ \A r \in Ids : r < s => pc[r] # "new"

worker_vars == <<scan_error, raw_cookies, extracted_cookies, raised, tx>>
tables == <<cookie_scans, scanned_cookies>>

-----------------------------------------------------------------------------
(* create_scan *)

\* The INSERT ... RETURNING * of create_scan, as a table: the row is added.
InsertScan(tbl, id, tid, now) ==
    [i \in DOMAIN tbl \cup {id} |-> IF i = id THEN NewScanRow(id, tid, now) ELSE tbl[i]]

\* add_task left out: no run is scheduled.
AddTaskNever(tasks, id) == tasks

\* add_task called twice for the same scan.
AddTaskTwice(tasks, id) == [tasks EXCEPT ![id] = @ + 2]

\* bg_tasks.add_task(scan_worker, scan_id, data.url)
AddTask(tasks, id) == [tasks EXCEPT ![id] = @ + 1]

\* create_scan up to the end of its `async with pool.acquire()` block: the
\* INSERT commits, or it raises and the request ends with no task added.
CreateInsertOk(s, hdr) ==
    /\ FreshId(s)
    /\ cookie_scans' = InsertScan(cookie_scans, s, get_tenant_from_req(hdr), clock)
    /\ row' = [row EXCEPT ![s] = Some(cookie_scans'[s])]
    /\ pc' = [pc EXCEPT ![s] = "inserted"]
    /\ UNCHANGED <<scanned_cookies, bg_tasks, worker_vars, clock, listing, browser, aux>>

CreateInsertFail(s) ==
    /\ FreshId(s)
    /\ pc' = [pc EXCEPT ![s] = "rejected"]
    /\ UNCHANGED <<tables, row, bg_tasks, worker_vars, clock, listing, browser, aux>>

CreateInsert(s, hdr) == CreateInsertOk(s, hdr) \/ CreateInsertFail(s)

\* The rest of create_scan: add_task, then return dict(row).  The response is
\* row[s] from here on; the task starts only after the response has been sent.
CreateReturn(s) ==
    /\ pc[s] = "inserted"
    /\ bg_tasks' = AddTask(bg_tasks, s)
    /\ pc' = [pc EXCEPT ![s] = "returned"]
    /\ UNCHANGED <<tables, row, worker_vars, clock, listing, browser, aux>>

-----------------------------------------------------------------------------
(* scan_worker *)

\* A launch that hands every run one shared browser.
LaunchShared(b, s) == [b EXCEPT ![s] = Some([handle |-> 0, open |-> TRUE])]

\* browser = await p.chromium.launch(...): a new browser process, which the
\* handle names; the handle is held in a local variable of this run.
LaunchBrowser(b, s) == [b EXCEPT ![s] = Some([handle |-> s, open |-> TRUE])]

\* await browser.close()
BrowserClose(b, s) ==
    [b EXCEPT ![s] = IF @ = None THEN None ELSE Some([Val(@) EXCEPT !.open = FALSE])]

\* An exit of the playwright block that leaves the browser as it is.
PlaywrightExitLeaves(b, s) == b

\* Leaving `async with async_playwright() as p`, normally or by an exception:
\* the driver is stopped, and with it every browser it launched.
PlaywrightExit(b, s) == BrowserClose(b, s)

\* except Exception as e: scan_error = str(e), in the inner handler ("nav",
\* after which the worker goes on to context.cookies()) or the outer one
\* ("outer", reached by leaving the playwright block, after which the worker
\* goes on to the terminal write).  b is the state of the browsers at the raise.
CatchFrom(s, handler, text, b) ==
    /\ scan_error' = [scan_error EXCEPT ![s] = Some(text)]
    /\ raised' = [raised EXCEPT ![s] = [@ EXCEPT ![handler] = Some(text)]]
    /\ pc' = [pc EXCEPT ![s] = IF handler = "nav" THEN "extract" ELSE "persist"]
    /\ browser' = IF handler = "nav" THEN b ELSE PlaywrightExit(b, s)

Catch(s, handler, text) == CatchFrom(s, handler, text, browser)

\* A browser step that either returns or raises into the handler around it.
BrowserStep(s, at, ok, handler) ==
    /\ pc[s] = at
    /\ \/ /\ pc' = [pc EXCEPT ![s] = ok]
          /\ UNCHANGED <<scan_error, raised, browser>>
       \/ \E text \in ExcTexts : Catch(s, handler, text)
    /\ UNCHANGED <<tables, bg_tasks, row, raw_cookies, extracted_cookies, tx,
                   clock, listing, aux>>

\* The first `async with pool.acquire()` block: UPDATE ... 'running'.
WorkerStartOk(s) ==
    /\ pc[s] = "returned"
    /\ bg_tasks[s] > 0
    /\ bg_tasks' = [bg_tasks EXCEPT ![s] = @ - 1]
    /\ cookie_scans' = UpdateRunning(cookie_scans, s, clock)
    /\ pc' = [pc EXCEPT ![s] = "launch"]
    /\ UNCHANGED <<scanned_cookies, row, worker_vars, clock, listing, browser, aux>>

\* The same block when the acquire or the UPDATE raises: the exception leaves
\* scan_worker.
WorkerStartFail(s) ==
    /\ pc[s] = "returned"
    /\ bg_tasks[s] > 0
    /\ bg_tasks' = [bg_tasks EXCEPT ![s] = @ - 1]
    /\ pc' = [pc EXCEPT ![s] = "aborted"]
    /\ UNCHANGED <<tables, row, worker_vars, clock, listing, browser, aux>>

WorkerStart(s) == WorkerStartOk(s) \/ WorkerStartFail(s)

\* async_playwright() and p.chromium.launch(...)
Launch(s) ==
    /\ pc[s] = "launch"
    /\ \/ /\ browser' = LaunchBrowser(browser, s)
          /\ pc' = [pc EXCEPT ![s] = "context"]
          /\ UNCHANGED <<scan_error, raised>>
       \/ \E text \in ExcTexts : Catch(s, "outer", text)
    /\ UNCHANGED <<tables, bg_tasks, row, raw_cookies, extracted_cookies, tx,
                   clock, listing, aux>>

\* browser.new_context(...) and context.new_page()
NewContext(s) == BrowserStep(s, "context", "goto", "outer")

\* page.goto(target_url, wait_until="domcontentloaded", timeout=60000)
Goto(s) == BrowserStep(s, "goto", "interact", "nav")

\* page.evaluate(scroll down), asyncio.sleep(3), page.evaluate(scroll up)
Interact(s) == BrowserStep(s, "interact", "idle", "nav")

\* A handler of the network-idle wait that records the exception as the others do.
IdleCatchRecords(err, text) == Some(text)

\* except Exception: logger.warning(...); pass -- scan_error is left as it is.
IdleCatch(err, text) == err

\* page.wait_for_load_state("networkidle", timeout=8000) in its own try/except,
\* then asyncio.sleep(4).
NetworkIdle(s) ==
    /\ pc[s] = "idle"
    /\ \/ UNCHANGED <<scan_error, raised>>
       \/ \E text \in ExcTexts :
             /\ scan_error' = [scan_error EXCEPT ![s] = IdleCatch(@, text)]
             /\ raised' = [raised EXCEPT ![s] = [@ EXCEPT !.idle = TRUE]]
    /\ pc' = [pc EXCEPT ![s] = "extract"]
    /\ UNCHANGED <<tables, bg_tasks, row, raw_cookies, extracted_cookies, tx,
                   clock, listing, browser, aux>>

\* raw_cookies = await context.cookies(): the jar the context holds, or an exception.
Extract(s) ==
    /\ pc[s] = "extract"
    /\ \/ /\ \E jar \in Jars : raw_cookies' = [raw_cookies EXCEPT ![s] = Some(jar)]
          /\ pc' = [pc EXCEPT ![s] = "close"]
          /\ UNCHANGED <<scan_error, raised, browser>>
       \/ /\ \E text \in ExcTexts : Catch(s, "outer", text)
          /\ UNCHANGED raw_cookies
    /\ UNCHANGED <<tables, bg_tasks, row, extracted_cookies, tx, clock, listing, aux>>

\* await browser.close() and, with no await in between, the mapping loop.
CloseAndMap(s) ==
    /\ pc[s] = "close"
    /\ \/ LET m == MapCookies(Val(raw_cookies[s]), s) IN
          /\ extracted_cookies' = [extracted_cookies EXCEPT ![s] = m.rows]
          /\ IF m.err = None
             THEN /\ pc' = [pc EXCEPT ![s] = "stop"]
                  /\ browser' = BrowserClose(browser, s)
                  /\ UNCHANGED <<scan_error, raised>>
             ELSE CatchFrom(s, "outer", Val(m.err), BrowserClose(browser, s))
       \/ /\ \E text \in ExcTexts : Catch(s, "outer", text)
          /\ UNCHANGED extracted_cookies
    /\ UNCHANGED <<tables, bg_tasks, row, raw_cookies, tx, clock, listing, aux>>

\* Leaving `async with async_playwright() as p` normally: the driver is stopped.
Stop(s) ==
    /\ pc[s] = "stop"
    /\ \/ /\ pc' = [pc EXCEPT ![s] = "persist"]
          /\ browser' = PlaywrightExit(browser, s)
          /\ UNCHANGED <<scan_error, raised>>
       \/ \E text \in ExcTexts : Catch(s, "outer", text)
    /\ UNCHANGED <<tables, bg_tasks, row, raw_cookies, extracted_cookies, tx,
                   clock, listing, aux>>

\* The second `async with pool.acquire()` block up to the end of the terminal
\* UPDATE, inside the transaction.  When the acquire, the BEGIN or the UPDATE
\* raises, the block is left by the exception, which leaves scan_worker.
TxUpdateOk(s) ==
    /\ pc[s] = "persist"
    /\ LET r == Execute(Db, tx[s], UpdateStmt(s, final_status(scan_error[s]),
                                              scan_error[s], clock)) IN
          /\ cookie_scans' = r.db.scans
          /\ scanned_cookies' = r.db.cookies
          /\ tx' = [tx EXCEPT ![s] = r.tx]
          /\ pc' = [pc EXCEPT ![s] = IF extracted_cookies[s] # <<>>
                                     THEN "tx_copy" ELSE "tx_commit"]
    /\ UNCHANGED <<bg_tasks, row, scan_error, raw_cookies, extracted_cookies,
                   raised, clock, listing, browser, aux>>

TxUpdateFail(s) ==
    /\ pc[s] = "persist"
    /\ LET d == Rollback(Db, tx[s]) IN
          /\ cookie_scans' = d.scans
          /\ scanned_cookies' = d.cookies
          /\ tx' = [tx EXCEPT ![s] = <<>>]
          /\ pc' = [pc EXCEPT ![s] = "failed_update"]
    /\ UNCHANGED <<bg_tasks, row, scan_error, raw_cookies, extracted_cookies,
                   raised, clock, listing, browser, aux>>

TxUpdate(s) == TxUpdateOk(s) \/ TxUpdateFail(s)

\* if extracted_cookies: await conn.copy_records_to_table(...); when it raises,
\* the transaction block is left by the exception, which leaves scan_worker.
TxCopyOk(s) ==
    /\ pc[s] = "tx_copy"
    /\ LET r == Execute(Db, tx[s], CopyStmt(extracted_cookies[s])) IN
          /\ cookie_scans' = r.db.scans
          /\ scanned_cookies' = r.db.cookies
          /\ tx' = [tx EXCEPT ![s] = r.tx]
          /\ pc' = [pc EXCEPT ![s] = "tx_commit"]
    /\ UNCHANGED <<bg_tasks, row, scan_error, raw_cookies, extracted_cookies,
                   raised, clock, listing, browser, aux>>

TxCopyFail(s) ==
    /\ pc[s] = "tx_copy"
    /\ LET d == Rollback(Db, tx[s]) IN
          /\ cookie_scans' = d.scans
          /\ scanned_cookies' = d.cookies
          /\ tx' = [tx EXCEPT ![s] = <<>>]
          /\ pc' = [pc EXCEPT ![s] = "failed_copy"]
    /\ UNCHANGED <<bg_tasks, row, scan_error, raw_cookies, extracted_cookies,
                   raised, clock, listing, browser, aux>>

TxCopy(s) == TxCopyOk(s) \/ TxCopyFail(s)

\* Leaving the transaction block normally: COMMIT.
TxCommit(s) ==
    /\ pc[s] = "tx_commit"
    /\ LET d == Commit(Db, tx[s]) IN
          /\ cookie_scans' = d.scans
          /\ scanned_cookies' = d.cookies
          /\ pc' = [pc EXCEPT ![s] = "done"]
    /\ tx' = [tx EXCEPT ![s] = <<>>]
    /\ UNCHANGED <<bg_tasks, row, scan_error, raw_cookies, extracted_cookies,
                   raised, clock, listing, browser, aux>>

scan_worker(s) ==
    \/ WorkerStart(s)
    \/ Launch(s)
    \/ NewContext(s)
    \/ Goto(s)
    \/ Interact(s)
    \/ NetworkIdle(s)
    \/ Extract(s)
    \/ CloseAndMap(s)
    \/ Stop(s)
    \/ TxUpdate(s)
    \/ TxCopy(s)
    \/ TxCommit(s)

-----------------------------------------------------------------------------
(* The lifecycle specification: requests and the workers they schedule.  It  *)
(* reads the clock without advancing it: what it is asked about a timestamp  *)
(* is only whether it is NULL.                                               *)

LifecycleHeaders == {Absent, Some("A")}

create_scan(s) ==
    \/ \E hdr \in LifecycleHeaders : CreateInsert(s, hdr)
    \/ CreateReturn(s)

Next ==
    \/ \E s \in Ids, hdr \in LifecycleHeaders : CreateInsert(s, hdr)
    \/ \E s \in Ids : CreateReturn(s)
    \/ \E s \in Ids : WorkerStart(s)
    \/ \E s \in Ids : Launch(s)
    \/ \E s \in Ids : NewContext(s)
    \/ \E s \in Ids : Goto(s)
    \/ \E s \in Ids : Interact(s)
    \/ \E s \in Ids : NetworkIdle(s)
    \/ \E s \in Ids : Extract(s)
    \/ \E s \in Ids : CloseAndMap(s)
    \/ \E s \in Ids : Stop(s)
    \/ \E s \in Ids : TxUpdate(s)
    \/ \E s \in Ids : TxCopy(s)
    \/ \E s \in Ids : TxCommit(s)

Spec == Init /\ [][Next]_vars

-----------------------------------------------------------------------------
(* list_scans *)

ListLimit == 50

\* WHERE tenant_id = $1, over the table in id order.
RECURSIVE WhereTenant(_, _, _)
WhereTenant(tbl, tid, i) ==
    IF i \notin DOMAIN tbl THEN <<>>
    ELSE IF tbl[i].tenant_id = tid
         THEN <<tbl[i]>> \o WhereTenant(tbl, tid, i + 1)
         ELSE WhereTenant(tbl, tid, i + 1)

\* Does row a come before row b under ORDER BY created_at DESC?  Rows with equal
\* created_at come in an order SQL leaves open: `newer_first` is the choice made.
Before(a, b, newer_first) ==
    \/ Val(a.created_at) > Val(b.created_at)
    \/ Val(a.created_at) = Val(b.created_at) /\ newer_first

\* Inserting row x into a sequence already in the order of Before.
RECURSIVE InsertOrdered(_, _, _)
InsertOrdered(x, sorted, newer_first) ==
    IF sorted = <<>> THEN <<x>>
    ELSE IF Before(x, Head(sorted), newer_first) THEN <<x>> \o sorted
    ELSE <<Head(sorted)>> \o InsertOrdered(x, Tail(sorted), newer_first)

\* ORDER BY created_at DESC
RECURSIVE OrderByCreatedDesc(_, _)
OrderByCreatedDesc(rows, newer_first) ==
    IF rows = <<>> THEN <<>>
    ELSE InsertOrdered(Head(rows), OrderByCreatedDesc(Tail(rows), newer_first),
                       newer_first)

\* LIMIT n OFFSET 0
Limit(rows, n) == SubSeq(rows, 1, IF Len(rows) < n THEN Len(rows) ELSE n)

\* The SELECT of list_scans without its WHERE clause.
SelectScansAllTenants(tbl, tid, newer_first) ==
    Limit(OrderByCreatedDesc([i \in 1..Len(tbl) |-> tbl[i]], newer_first), ListLimit)

\* SELECT * FROM cookie_scans WHERE tenant_id = $1 ORDER BY created_at DESC
\* LIMIT 50 OFFSET 0
SelectScans(tbl, tid, newer_first) ==
    Limit(OrderByCreatedDesc(WhereTenant(tbl, tid, 1), newer_first), ListLimit)

\* list_scans: the handler as a whole (one SELECT); the response is kept with
\* the header the request carried.
list_scans(hdr) ==
    /\ \E newer_first \in BOOLEAN :
          listing' = Some([hdr |-> hdr,
                           rows |-> SelectScans(cookie_scans, get_tenant_from_req(hdr),
                                                newer_first)])
    /\ UNCHANGED <<tables, pc, bg_tasks, row, worker_vars, clock, browser, aux>>

-----------------------------------------------------------------------------------------------------------------------------------------
(* The listing specification: create_scan requests, whose runs have not begun, *)
(* and list_scans.  It starts from an empty table or from one in which the     *)
(* tenant ListTenant already has ListPrefill scans, created at successive      *)
(* instants.  Here the clock advances with a request, or does not: two         *)
(* requests may be served within one instant.                                  *)

ListTenant == "A"

\* create_scan as a whole, its INSERT succeeding, at the instant `now`.
CreateScan(s, hdr, now) ==
    /\ FreshId(s)
    /\ cookie_scans' = InsertScan(cookie_scans, s, get_tenant_from_req(hdr), now)
    /\ row' = [row EXCEPT ![s] = Some(cookie_scans'[s])]
    /\ bg_tasks' = AddTask(bg_tasks, s)
    /\ pc' = [pc EXCEPT ![s] = "returned"]
    /\ clock' = now
    /\ listing' = None
    /\ UNCHANGED <<scanned_cookies, worker_vars, browser, aux>>

ListCreate(s, hdr, tick) == CreateScan(s, hdr, IF tick THEN clock + 1 ELSE clock)

\* The state after n requests of ListTenant at the instants 1..n, with room
\* for MaxListNew more requests.
Prefilled(n) ==
    /\ cookie_scans = [i \in 1..n |-> NewScanRow(i, ListTenant, i)]
    /\ scanned_cookies = {}
    /\ pc = [s \in 1..(n + MaxListNew) |-> IF s <= n THEN "returned" ELSE "new"]
    /\ bg_tasks = [s \in 1..(n + MaxListNew) |-> IF s <= n THEN 1 ELSE 0]
    /\ row = [s \in 1..(n + MaxListNew) |->
                 IF s <= n THEN Some(NewScanRow(s, ListTenant, s)) ELSE None]
    /\ scan_error = [s \in 1..(n + MaxListNew) |-> None]
    /\ raw_cookies = [s \in 1..(n + MaxListNew) |-> None]
    /\ extracted_cookies = [s \in 1..(n + MaxListNew) |-> <<>>]
    /\ raised = [s \in 1..(n + MaxListNew) |->
                    [nav |-> None, outer |-> None, idle |-> FALSE]]
    /\ tx = [s \in 1..(n + MaxListNew) |-> <<>>]
    /\ clock = n
    /\ listing = None
    /\ browser = [s \in 1..(n + MaxListNew) |-> None]
    /\ reader = None
    /\ pool = None
    /\ probe = None

InitList == Prefilled(0) \/ Prefilled(ListPrefill)

NextList ==
    \/ \E s \in Ids, hdr \in Headers, tick \in BOOLEAN : ListCreate(s, hdr, tick)
    \/ \E hdr \in Headers : list_scans(hdr)

SpecList == InitList /\ [][NextList]_vars

-----------------------------------------------------------------------------
(* Vocabulary of the properties *)

Terminal(status) == status \in {"completed", "failed"}

\* The Cookie Records stored (committed) for scan s.
CookiesOf(s) == {r \in scanned_cookies : r.scan_id = s}

\* The positions of a scan_worker that has begun ("aborted": its first UPDATE raised).
WorkerPcs == {"aborted", "launch", "context", "goto", "interact", "idle", "extract",
              "close", "stop", "persist", "tx_copy", "tx_commit", "done",
              "failed_update", "failed_copy"}

\* The capture phase of scan s raised an exception (caught by either handler).
CaptureRaised(s) == raised[s].nav # None \/ raised[s].outer # None

\* The text of the exception that ended the capture phase of scan s.
LastRaised(s) == IF raised[s].outer # None THEN raised[s].outer ELSE raised[s].nav

-----------------------------------------------------------------------------
(* C1: in every reachable state of every Scan row, error is non-null iff      *)
(* status = 'failed'; a scan whose capture phase raised never ends            *)
(* 'completed'.  The code decides the status by the truthiness of str(e), so  *)
(* an exception whose text is empty gives 'completed' with error = ''.        *)
C1_ErrorIffFailed ==
    \A s \in DOMAIN cookie_scans :
        /\ (cookie_scans[s].error # None) <=> (cookie_scans[s].status = "failed")
        /\ CaptureRaised(s) => cookie_scans[s].status # "completed"

(* C2: the status of a Scan only changes along pending -> running ->          *)
(* {completed, failed}, and a terminal scan's status, error and completed_at  *)
(* are never written again.                                                   *)
C2_Step(old, new) ==
    /\ \/ new.status = old.status
       \/ old.status = "pending" /\ new.status = "running"
       \/ old.status = "running" /\ Terminal(new.status)
    /\ Terminal(old.status) =>
          /\ new.status = old.status
          /\ new.error = old.error
          /\ new.completed_at = old.completed_at

C2_StatusMachine ==
    [][\A s \in DOMAIN cookie_scans :
          /\ s \in DOMAIN cookie_scans'
          /\ C2_Step(cookie_scans[s], cookie_scans'[s])]_vars

C2_Witness ==
    \E s, r \in DOMAIN cookie_scans :
        /\ pc[s] = "done" /\ Terminal(cookie_scans[s].status)
        /\ pc[r] = "launch" /\ cookie_scans[r].status = "running"

(* C3: the Cookie Records stored for a scan are either none or the complete   *)
(* batch scan_worker built, and the batch is there exactly when the scan's    *)
(* status is terminal: never cookies under 'pending' or 'running', never a    *)
(* terminal scan with part of its batch.                                      *)
C3_BatchAtomic ==
    \A s \in DOMAIN cookie_scans :
        CookiesOf(s) = IF Terminal(cookie_scans[s].status)
                       THEN Range(extracted_cookies[s])
                       ELSE {}

C3_Witness ==
    \E s \in DOMAIN cookie_scans :
        /\ Terminal(cookie_scans[s].status)
        /\ Len(extracted_cookies[s]) >= 2
        /\ Cardinality(CookiesOf(s)) = Len(extracted_cookies[s])

(* C4: started_at is null exactly while the scan is 'pending', completed_at   *)
(* is null exactly while it is 'pending' or 'running'.                        *)
C4_Timestamps ==
    \A s \in DOMAIN cookie_scans :
        /\ (cookie_scans[s].started_at = None) <=> (cookie_scans[s].status = "pending")
        /\ (cookie_scans[s].completed_at = None)
              <=> (cookie_scans[s].status \in {"pending", "running"})

C4_Witness ==
    \E s, r \in DOMAIN cookie_scans :
        /\ cookie_scans[s].status = "running" /\ cookie_scans[s].started_at # None
        /\ Terminal(cookie_scans[r].status) /\ cookie_scans[r].completed_at # None

(* C5: create_scan inserts the 'pending' row before it schedules scan_worker, *)
(* returns a record whose status is 'pending' without waiting for the run     *)
(* (which has not begun when it returns), schedules exactly one run per       *)
(* created scan and none when the insert fails.                               *)
C5_CreateThenSchedule ==
    \A s \in Ids :
        /\ pc[s] \in {"new", "rejected"} =>
              s \notin DOMAIN cookie_scans /\ bg_tasks[s] = 0
        /\ pc[s] = "inserted" =>
              /\ s \in DOMAIN cookie_scans
              /\ cookie_scans[s].status = "pending"
              /\ bg_tasks[s] = 0
        /\ pc[s] = "returned" =>
              /\ bg_tasks[s] = 1
              /\ Val(row[s]).status = "pending"
              /\ cookie_scans[s].status = "pending"
        /\ pc[s] \in WorkerPcs =>
              /\ bg_tasks[s] = 0
              /\ s \in DOMAIN cookie_scans
              /\ Val(row[s]).status = "pending"

C5_Witness ==
    \E s, r \in Ids :
        /\ pc[s] = "returned" /\ bg_tasks[s] = 1
        /\ pc[r] = "rejected"

(* C6: for every exception raised in the capture phase, the worker still      *)
(* performs the terminal write, and that write sets status = 'failed' with    *)
(* error equal to the exception's text.  It fails on an exception whose text  *)
(* is empty (see C1).                                                         *)
C6_RaisedMeansFailed ==
    \A s \in Ids :
        (pc[s] = "done" /\ CaptureRaised(s)) =>
            /\ cookie_scans[s].status = "failed"
            /\ cookie_scans[s].error = LastRaised(s)

(* C7: when navigation fails (page.goto or a later interaction step raises),  *)
(* the worker still extracts the jar, and the terminal write marks the scan   *)
(* 'failed' with a non-null error and persists one Cookie Record for every    *)
(* cookie that was in the jar at extraction time.  Stated for the runs in     *)
(* which context.cookies() returned.  It fails when the text of the           *)
(* navigation exception is empty (see C1) and when browser.close() or the     *)
(* mapping loop raises after the extraction: the records are then dropped.    *)
C7_NavFailureKeepsCookies ==
    \A s \in Ids :
        (pc[s] = "done" /\ raised[s].nav # None /\ raw_cookies[s] # None) =>
            /\ cookie_scans[s].status = "failed"
            /\ cookie_scans[s].error # None
            /\ Cardinality(CookiesOf(s)) = Len(Val(raw_cookies[s]))
            /\ \A k \in 1..Len(Val(raw_cookies[s])) :
                  \E r \in CookiesOf(s) : r.name = Val(raw_cookies[s])[k].name

(* C8: if the terminal write fails inside its transaction (the UPDATE or the  *)
(* bulk insert), none of it lands: the row remains 'running' with null        *)
(* completed_at and null error, and no Cookie Record of the scan exists.      *)
C8_FailedWriteLeavesRunning ==
    \A s \in Ids :
        pc[s] \in {"failed_update", "failed_copy"} =>
            /\ cookie_scans[s].status = "running"
            /\ cookie_scans[s].completed_at = None
            /\ cookie_scans[s].error = None
            /\ CookiesOf(s) = {}

C8_Witness ==
    \E s \in Ids :
        /\ pc[s] = "failed_copy"
        /\ extracted_cookies[s] # <<>>
        /\ cookie_scans[s].status = "running"

(* C9: a step of the run of one scan writes only that scan's cookie_scans row *)
(* and scanned_cookies rows, and the terminal status, error and batch of a    *)
(* scan are those its own run computed, whatever the other runs do.           *)
C9_Frame ==
    \A s, r \in Ids :
        (pc'[s] # pc[s] /\ r # s /\ r \in DOMAIN cookie_scans) =>
            /\ r \in DOMAIN cookie_scans'
            /\ cookie_scans'[r] = cookie_scans[r]
            /\ {c \in scanned_cookies' : c.scan_id = r} = CookiesOf(r)

C9_OwnOutcome ==
    \A s \in Ids :
        pc[s] = "done" =>
            /\ cookie_scans[s].status = final_status(scan_error[s])
            /\ cookie_scans[s].error = scan_error[s]
            /\ CookiesOf(s) = Range(extracted_cookies[s])
            /\ \A c \in CookiesOf(s) : c.id[1] = s

C9_Independent == [][C9_Frame]_vars /\ []C9_OwnOutcome

C9_Witness ==
    \E s, r \in Ids :
        /\ pc[s] = "done" /\ cookie_scans[s].status = "completed"
        /\ CookiesOf(s) # {}
        /\ pc[r] \in {"done", "failed_copy"} /\ cookie_scans[r].status # "completed"
        /\ extracted_cookies[r] # <<>>

(* C10: list_scans called for tenant T (the zero UUID when the header is      *)
(* absent or empty) returns only scans of T, at most 50 of them, in           *)
(* descending order of created_at, and they are the most recently created     *)
(* scans of T; a scan of another tenant is never in the listing.              *)
RequestTenant(hdr) == IF hdr \in {Absent, Some("")} THEN ZeroUuid ELSE Val(hdr)

ScansOfTenant(tid) == {i \in DOMAIN cookie_scans : cookie_scans[i].tenant_id = tid}

C10_Listing ==
    listing # None =>
        LET rows == Val(listing).rows
            tid  == RequestTenant(Val(listing).hdr)
            n    == Cardinality(ScansOfTenant(tid))
        IN  /\ \A k \in 1..Len(rows) :
                  /\ rows[k].tenant_id = tid
                  /\ rows[k].id \in DOMAIN cookie_scans
                  /\ rows[k] = cookie_scans[rows[k].id]
            /\ Len(rows) = IF n < 50 THEN n ELSE 50
            /\ \A j, k \in 1..Len(rows) : j # k => rows[j].id # rows[k].id
            /\ \A k \in 1..(Len(rows) - 1) :
                  Val(rows[k].created_at) >= Val(rows[k + 1].created_at)
            /\ \A i \in ScansOfTenant(tid) :
                  (\A k \in 1..Len(rows) : rows[k].id # i) =>
                      \A k \in 1..Len(rows) :
                          Val(rows[k].created_at) >= Val(cookie_scans[i].created_at)

C10_Witness ==
    /\ listing # None
    /\ Len(Val(listing).rows) = 50
    /\ Cardinality(ScansOfTenant(RequestTenant(Val(listing).hdr))) > 50
    /\ \E i \in DOMAIN cookie_scans :
          /\ cookie_scans[i].tenant_id # RequestTenant(Val(listing).hdr)
          /\ Val(cookie_scans[i].created_at) >= Val(Val(listing).rows[50].created_at)

-----------------------------------------------------------------------------
\* The positions of a scan_worker that has left its capture phase (the outer try).
PostCapturePcs == {"persist", "tx_copy", "tx_commit", "done", "failed_update",
                   "failed_copy"}

(* C15: whenever context.cookies() returned the jar of a scan, the committed  *)
(* batch of that scan has exactly one Cookie Record per cookie of the jar,    *)
(* each with the scan's id.  The code builds the records only after           *)
(* browser.close(), inside the same try: an exception of close() leaves the   *)
(* batch empty and an exception in the mapping loop leaves a prefix.          *)
C15_FullJarPersisted ==
    \A s \in Ids :
        (pc[s] = "done" /\ raw_cookies[s] # None) =>
            LET jar == Val(raw_cookies[s]) IN
            /\ Cardinality(CookiesOf(s)) = Len(jar)
            /\ \A k \in 1..Len(jar) :
                  \E r \in CookiesOf(s) : r.id = <<s, k>> /\ r.name = jar[k].name

(* C16: a scan in which only the wait for network idle raised (no exception   *)
(* reached the navigation handler or the outer handler) went on to extract    *)
(* the cookies, and its committed row is 'completed' with error null.         *)
C16_IdleTimeoutNotFatal ==
    \A s \in Ids :
        (raised[s].idle /\ ~CaptureRaised(s)) =>
            /\ pc[s] \in WorkerPcs
            /\ scan_error[s] = None
            /\ pc[s] \in PostCapturePcs => raw_cookies[s] # None
            /\ pc[s] = "done" =>
                  /\ cookie_scans[s].status = "completed"
                  /\ cookie_scans[s].error = None

C16_Witness ==
    \E s \in Ids :
        /\ raised[s].idle
        /\ ~CaptureRaised(s)
        /\ pc[s] = "done"
        /\ cookie_scans[s].status = "completed"

(* C17: two runs never hold the same browser, and a run that has left its     *)
(* capture phase, on whichever path, has no browser open.                     *)
C17_SessionOwnedAndReleased ==
    /\ \A s, t \in Ids :
          (s # t /\ browser[s] # None /\ browser[t] # None) =>
              Val(browser[s]).handle # Val(browser[t]).handle
    /\ \A s \in Ids :
          pc[s] \in PostCapturePcs => (browser[s] = None \/ ~Val(browser[s]).open)

\* A run left the capture phase through the outer handler after it had
\* launched a browser, while another run has its own browser open.
C17_Witness ==
    \E s, t \in Ids :
        /\ s # t
        /\ pc[s] = "persist"
        /\ raised[s].outer # None
        /\ raw_cookies[s] = None
        /\ browser[s] # None
        /\ browser[t] # None /\ Val(browser[t]).open

-----------------------------------------------------------------------------
(* The read specification: the life cycle of MaxReadScans scans together with *)
(* the two read handlers.  get_scan runs its two SELECTs as two statements on *)
(* one connection, outside any transaction: each sees what is committed when  *)
(* it runs, and the worker may commit in between.                             *)

MaxReadScans == 1

\* The X-Internal-Org-Id headers of the read requests.
ReadHeaders == {Some("A"), Some("B")}

\* The ids a read request can name: those of the scans and one that is unknown.
ReadIds == 1..(MaxReadScans + 1)

\* SELECT * FROM scanned_cookies WHERE scan_id = $1 ORDER BY category, name
\* (the rows as a set; their order is not modelled)
SelectCookies(tbl, id) == {r \in tbl : r.scan_id = id}

\* get_scan up to its first SELECT: SELECT * FROM cookie_scans WHERE id = $1,
\* and HTTPException(404) if there is no such row.  The handler takes the id
\* alone; hdr is the header the request carried, kept to tell who asked.
GetScanFetchScan(hdr, id) ==
    /\ IF reader = None THEN TRUE ELSE Val(reader).at # "fetched"
    /\ reader' = IF id \in DOMAIN cookie_scans
                 THEN Some([hdr |-> hdr, id |-> id, at |-> "fetched",
                            scan |-> Some(cookie_scans[id]), cookies |-> {}])
                 ELSE Some([hdr |-> hdr, id |-> id, at |-> "not_found",
                            scan |-> None, cookies |-> {}])
    /\ UNCHANGED <<tables, pc, bg_tasks, row, worker_vars, clock, listing, browser,
                   pool, probe>>

\* get_scan from its second SELECT to the response {scan, cookies}.
GetScanFetchCookies ==
    /\ reader # None
    /\ Val(reader).at = "fetched"
    /\ reader' = Some([Val(reader) EXCEPT
                          !.at = "responded",
                          !.cookies = SelectCookies(scanned_cookies, Val(reader).id)])
    /\ UNCHANGED <<tables, pc, bg_tasks, row, worker_vars, clock, listing, browser,
                   pool, probe>>

get_scan(hdr, id) == GetScanFetchScan(hdr, id) \/ GetScanFetchCookies

InitRead == InitFor(MaxReadScans)

NextRead ==
    \/ \E s \in Ids, hdr \in LifecycleHeaders : CreateInsert(s, hdr)
    \/ \E s \in Ids : CreateReturn(s)
    \/ \E s \in Ids : WorkerStart(s)
    \/ \E s \in Ids : Launch(s)
    \/ \E s \in Ids : NewContext(s)
    \/ \E s \in Ids : Goto(s)
    \/ \E s \in Ids : Interact(s)
    \/ \E s \in Ids : NetworkIdle(s)
    \/ \E s \in Ids : Extract(s)
    \/ \E s \in Ids : CloseAndMap(s)
    \/ \E s \in Ids : Stop(s)
    \/ \E s \in Ids : TxUpdate(s)
    \/ \E s \in Ids : TxCopy(s)
    \/ \E s \in Ids : TxCommit(s)
    \/ \E hdr \in ReadHeaders : list_scans(hdr)
    \/ \E hdr \in ReadHeaders, id \in ReadIds : GetScanFetchScan(hdr, id)
    \/ GetScanFetchCookies

SpecRead == InitRead /\ [][NextRead]_vars

(* C11: no read issued on behalf of a tenant returns a Scan of another        *)
(* tenant or its Cookie Records: every row of a list_scans response and the   *)
(* scan of a get_scan response belong to the tenant of the request.  get_scan *)
(* selects by id alone, so it answers whoever asks.                           *)
C11_TenantScopedReads ==
    /\ listing # None =>
          \A k \in 1..Len(Val(listing).rows) :
              Val(listing).rows[k].tenant_id = RequestTenant(Val(listing).hdr)
    /\ (reader # None /\ Val(reader).scan # None) =>
          Val(Val(reader).scan).tenant_id = RequestTenant(Val(reader).hdr)

(* C19: a get_scan response with a non-empty cookies list carries a scan with *)
(* a terminal status and a non-null completed_at.  The two SELECTs are not in *)
(* one transaction: the first may read the row as 'running' and the second    *)
(* the batch committed since.                                                 *)
C19_ConsistentSnapshot ==
    (reader # None /\ Val(reader).at = "responded" /\ Val(reader).cookies # {}) =>
        /\ Terminal(Val(Val(reader).scan).status)
        /\ Val(Val(reader).scan).completed_at # None

-----------------------------------------------------------------------------
(* The liveness specification: the life cycle with every database operation   *)
(* succeeding.  A request that has inserted its row goes on to schedule the   *)
(* run and return; the event loop runs every scheduled background task; each  *)
(* browser step returns or raises (its timeout bounds it), so a run that can  *)
(* take its next step eventually takes it.                                    *)

MaxLiveScans == 1

InitLive == InitFor(MaxLiveScans)

\* The steps of one run when the database does not fail.
WorkerLive(s) ==
    \/ WorkerStartOk(s)
    \/ Launch(s)
    \/ NewContext(s)
    \/ Goto(s)
    \/ Interact(s)
    \/ NetworkIdle(s)
    \/ Extract(s)
    \/ CloseAndMap(s)
    \/ Stop(s)
    \/ TxUpdateOk(s)
    \/ TxCopyOk(s)
    \/ TxCommit(s)

NextLive ==
    \/ \E s \in Ids, hdr \in LifecycleHeaders : CreateInsertOk(s, hdr)
    \/ \E s \in Ids : CreateReturn(s)
    \/ \E s \in Ids : WorkerStartOk(s)
    \/ \E s \in Ids : Launch(s)
    \/ \E s \in Ids : NewContext(s)
    \/ \E s \in Ids : Goto(s)
    \/ \E s \in Ids : Interact(s)
    \/ \E s \in Ids : NetworkIdle(s)
    \/ \E s \in Ids : Extract(s)
    \/ \E s \in Ids : CloseAndMap(s)
    \/ \E s \in Ids : Stop(s)
    \/ \E s \in Ids : TxUpdateOk(s)
    \/ \E s \in Ids : TxCopyOk(s)
    \/ \E s \in Ids : TxCommit(s)

\* Some request or run that can take its next step eventually takes one.
LiveStep == \E s \in Ids : CreateReturn(s) \/ WorkerLive(s)

Fairness == WF_vars(LiveStep)

SpecLive == InitLive /\ [][NextLive]_vars /\ Fairness

(* C14: every scan whose row create_scan has inserted eventually has a        *)
(* terminal status, 'completed' or 'failed', in the committed table.          *)
C14_EventuallyTerminal ==
    \A s \in 1..MaxLiveScans :
        (pc[s] = "inserted") ~>
            (s \in DOMAIN cookie_scans /\ Terminal(cookie_scans[s].status))

\* A run whose navigation raised has ended, its terminal write committed.
C14_Witness ==
    \E s \in Ids :
        /\ pc[s] = "done"
        /\ raised[s].nav # None
        /\ Terminal(cookie_scans[s].status)
        /\ cookie_scans[s].completed_at # None

-----------------------------------------------------------------------------
(* The categorisation specification: categorize_cookie alone, called on names *)
(* put together from fragments, and on respellings of them.                   *)

MaxFragments == 2

\* Pieces of cookie names: one keyword of each group in some spelling, pieces
\* that make a keyword only when joined ("ID" + "e"), and one in no group.
FragPool ==
    << <<"_","g","a">>, <<"F","B","P">>, <<"L","a","n","g">>, <<"a","u","t","h">>,
       <<"I","D">>, <<"e">>, <<"x","-">> >>

RECURSIVE Join(_)
Join(fs) == IF fs = <<>> THEN <<>> ELSE FragPool[Head(fs)] \o Join(Tail(fs))

CatNames ==
    {Join(fs) : fs \in UNION {[1..n -> 1..Len(FragPool)] : n \in 0..MaxFragments}}

\* The same letter in the other case; any other character as it is.
SwapCase(ch) ==
    IF \E i \in 1..Len(UpperCase) : UpperCase[i] = ch
    THEN LowerCase[CHOOSE i \in 1..Len(UpperCase) : UpperCase[i] = ch]
    ELSE IF \E i \in 1..Len(LowerCase) : LowerCase[i] = ch
    THEN UpperCase[CHOOSE i \in 1..Len(LowerCase) : LowerCase[i] = ch]
    ELSE ch

\* The spelling of name that differs from it in the case of the letters at the
\* positions of mask.
Respell(name, mask) ==
    [i \in 1..Len(name) |-> IF i \in mask THEN SwapCase(name[i]) ELSE name[i]]

\* No scan, no request: only the arguments of the calls.
InitCat ==
    /\ cookie_scans = <<>>
    /\ scanned_cookies = {}
    /\ pc = <<>>
    /\ bg_tasks = <<>>
    /\ row = <<>>
    /\ scan_error = <<>>
    /\ raw_cookies = <<>>
    /\ extracted_cookies = <<>>
    /\ raised = <<>>
    /\ tx = <<>>
    /\ clock = 0
    /\ listing = None
    /\ browser = <<>>
    /\ reader = None
    /\ pool = None
    /\ \E name \in CatNames : \E mask \in SUBSET (1..Len(name)) :
          probe = Some([name |-> name, other |-> Respell(name, mask), calls |-> 0,
                        first |-> None, again |-> None, respelled |-> None])

\* categorize_cookie(name), the first call.
Categorize ==
    /\ probe # None
    /\ Val(probe).calls = 0
    /\ probe' = Some([Val(probe) EXCEPT
                         !.calls = 1,
                         !.first = Some(categorize_cookie(Val(probe).name))])
    /\ UNCHANGED <<tables, pc, bg_tasks, row, worker_vars, clock, listing, browser,
                   reader, pool>>

\* categorize_cookie(name) once more, and categorize_cookie of the respelling.
CategorizeAgain ==
    /\ probe # None
    /\ Val(probe).calls = 1
    /\ probe' = Some([Val(probe) EXCEPT
                         !.calls = 2,
                         !.again = Some(categorize_cookie(Val(probe).name)),
                         !.respelled = Some(categorize_cookie(Val(probe).other))])
    /\ UNCHANGED <<tables, pc, bg_tasks, row, worker_vars, clock, listing, browser,
                   reader, pool>>

NextCat == Categorize \/ CategorizeAgain

SpecCat == InitCat /\ [][NextCat]_vars

\* The groups in the order of the claim, and the first of them having a key
\* that is a substring of n.
GroupOrder ==
    << [label |-> "Analytics", keys |-> AnalyticsKeys],
       [label |-> "Marketing", keys |-> MarketingKeys],
       [label |-> "Functional", keys |-> FunctionalKeys],
       [label |-> "Necessary", keys |-> NecessaryKeys] >>

Matching(n) == {g \in 1..Len(GroupOrder) : AnyKey(GroupOrder[g].keys, n)}

FirstGroup(n) ==
    IF Matching(n) = {} THEN "Unknown"
    ELSE GroupOrder[CHOOSE g \in Matching(n) : \A h \in Matching(n) : g <= h].label

\* The name in lower case, written without str.lower: the upper-case letters
\* are the ones respelled.
LowerCased(name) ==
    Respell(name, {i \in 1..Len(name) : \E k \in 1..Len(UpperCase) : UpperCase[k] = name[i]})

(* C12: the category of a name is the first group, in the order Analytics,    *)
(* Marketing, Functional, Necessary, having a keyword that is a substring of  *)
(* the lower-cased name, and 'Unknown' only when no group has one.            *)
C12_FirstGroupWins ==
    (probe # None /\ Val(probe).calls > 0) =>
        /\ Val(Val(probe).first) = FirstGroup(LowerCased(Val(probe).name))
        /\ Val(Val(probe).first) = "Unknown" <=> Matching(LowerCased(Val(probe).name)) = {}

\* A name with an Analytics and a Necessary fragment, categorised 'Analytics'.
C12_Witness ==
    /\ probe # None
    /\ Val(probe).calls > 0
    /\ Matching(LowerCased(Val(probe).name)) = {1, 4}
    /\ Val(probe).first = Some("Analytics")

(* C13: two spellings of a name that differ only in letter case have the same *)
(* category, and a second call with the same name returns what the first did. *)
C13_CaseInsensitive ==
    (probe # None /\ Val(probe).calls = 2) =>
        /\ Val(probe).respelled = Val(probe).first
        /\ Val(probe).again = Val(probe).first

\* A name and a different spelling of it, both in a group.
C13_Witness ==
    /\ probe # None
    /\ Val(probe).calls = 2
    /\ Val(probe).other # Val(probe).name
    /\ Val(probe).respelled = Val(probe).first
    /\ Val(probe).first # Some("Unknown")

-----------------------------------------------------------------------------
(* The mapping specification: the mapping loop of scan_worker alone, on jars  *)
(* of raw cookies with every kind of expiry: absent, -1 (what the browser     *)
(* reports for a session cookie), 0, positive, and beyond MaxTimestamp.       *)

MaxMapJar == 2

MapNames == {<<"_","g","a">>, <<"S","E","S","S","I","O","N">>, <<"x","-">>}

MapExpiries ==
    {None, Some(-1), Some(0), Some(1), Some(MaxTimestamp), Some(MaxTimestamp + 1)}

MapRawCookies == [name : MapNames, expires : MapExpiries]

MapJars == UNION {[1..n -> MapRawCookies] : n \in 0..MaxMapJar}

InitMap ==
    /\ cookie_scans = <<>>
    /\ scanned_cookies = {}
    /\ pc = <<>>
    /\ bg_tasks = <<>>
    /\ row = <<>>
    /\ scan_error = <<>>
    /\ raw_cookies = <<>>
    /\ extracted_cookies = <<>>
    /\ raised = <<>>
    /\ tx = <<>>
    /\ clock = 0
    /\ listing = None
    /\ browser = <<>>
    /\ reader = None
    /\ pool = None
    /\ \E jar \in MapJars, id \in 1..MaxScans :
          probe = Some([jar |-> jar, scan_id |-> id, out |-> None])

\* for c in raw_cookies: ... extracted_cookies.append({...})
MapJar ==
    /\ probe # None
    /\ Val(probe).out = None
    /\ probe' = Some([Val(probe) EXCEPT
                         !.out = Some(MapCookies(Val(probe).jar, Val(probe).scan_id))])
    /\ UNCHANGED <<tables, pc, bg_tasks, row, worker_vars, clock, listing, browser,
                   reader, pool>>

NextMap == MapJar

SpecMap == InitMap /\ [][NextMap]_vars

(* C20: every Cookie Record the loop builds has a non-null expiration exactly *)
(* when its raw cookie carries an expiry greater than 0 (absent, zero and     *)
(* negative give null); its source is 'headless_browser' and its category is  *)
(* that of its name, so '_ga' with a positive expiry is 'Analytics' with an   *)
(* expiration.                                                                *)
C20_RecordFields ==
    (probe # None /\ Val(probe).out # None) =>
        LET jar  == Val(probe).jar
            rows == Val(Val(probe).out).rows
        IN  /\ Len(rows) <= Len(jar)
            /\ \A k \in 1..Len(rows) :
                  /\ rows[k].name = jar[k].name
                  /\ rows[k].expiration # None <=>
                        (jar[k].expires # None /\ Val(jar[k].expires) > 0)
                  /\ rows[k].source = "headless_browser"
                  /\ rows[k].category = categorize_cookie(jar[k].name)
                  /\ rows[k].category = FirstGroup(LowerCased(jar[k].name))
                  /\ (jar[k].name = <<"_","g","a">> /\ jar[k].expires = Some(1)) =>
                        (rows[k].category = "Analytics" /\ rows[k].expiration # None)

\* A jar mapped in full: '_ga' with a positive expiry, then a cookie whose
\* expiry is 0.
C20_Witness ==
    /\ probe # None
    /\ Val(probe).out # None
    /\ Len(Val(Val(probe).out).rows) = MaxMapJar
    /\ \E k \in 1..Len(Val(probe).jar) :
          /\ Val(probe).jar[k].name = <<"_","g","a">>
          /\ Val(Val(probe).out).rows[k].category = "Analytics"
          /\ Val(Val(probe).out).rows[k].expiration # None
    /\ \E k \in 1..Len(Val(probe).jar) :
          /\ Val(probe).jar[k].expires = Some(0)
          /\ Val(Val(probe).out).rows[k].expiration = None

-----------------------------------------------------------------------------
(* The pool specification: MaxPoolRuns create_scan requests with their runs   *)
(* and MaxPoolReads read requests on the pool of PoolMax connections, more    *)
(* units of work than connections.  The units are counted by position: the    *)
(* pool state gives, for every position, how many units are at it and how     *)
(* many connections those units hold, and the number of connections the pool  *)
(* has handed out.  `async with pool.acquire()` waits while none is free and  *)
(* gives the connection back when the block is left, normally or not.         *)

\* asyncpg.create_pool(..., max_size=10)
PoolMax == 10

MaxPoolRuns == 8
MaxPoolReads == 4

\* The positions of a unit of work.  A run: its request not yet arrived, in
\* the block of create_scan, scheduled as a background task, in the first
\* block of scan_worker, in the capture phase, before the second block, in
\* the second block, ended.  A read request: not yet arrived, in the block of
\* list_scans or get_scan, ended.
HoldPositions == {"create_hold", "start_hold", "tx_hold", "read_hold"}
Positions == HoldPositions \cup {"new", "scheduled", "capture", "persist", "finished",
                                 "read_new", "read_finished"}

\* A unit goes from one position to another.
MoveUnit(at, from, to) == [at EXCEPT ![from] = @ - 1, ![to] = @ + 1]

\* Entering `async with pool.acquire() as conn`.
Acquire(p, from, to) ==
    [in_use |-> p.in_use + 1,
     at     |-> MoveUnit(p.at, from, to),
     conns  |-> [p.conns EXCEPT ![to] = @ + 1]]

\* A block that gives its connection back only when it is left normally.
ReleaseOnSuccessOnly(p, from, to, ok) ==
    IF ok
    THEN [in_use |-> p.in_use - 1,
          at     |-> MoveUnit(p.at, from, to),
          conns  |-> [p.conns EXCEPT ![from] = @ - 1]]
    ELSE [in_use |-> p.in_use,
          at     |-> MoveUnit(p.at, from, to),
          conns  |-> [p.conns EXCEPT ![from] = @ - 1, ![to] = @ + 1]]

\* Leaving the `async with pool.acquire()` block, normally (ok) or by an
\* exception: the connection goes back to the pool.
Release(p, from, to, ok) ==
    [in_use |-> p.in_use - 1,
     at     |-> MoveUnit(p.at, from, to),
     conns  |-> [p.conns EXCEPT ![from] = @ - 1]]

pool_frame ==
    <<tables, pc, bg_tasks, row, worker_vars, clock, listing, browser, reader, probe>>

\* A unit at `from` enters a block when the pool has a connection free.
PoolAcquire(from, to) ==
    /\ Val(pool).at[from] > 0
    /\ Val(pool).in_use < PoolMax
    /\ pool' = Some(Acquire(Val(pool), from, to))
    /\ UNCHANGED pool_frame

\* A unit at `from` leaves its block, normally to `to`, by an exception to `failed`.
PoolRelease(from, to, failed) ==
    /\ Val(pool).at[from] > 0
    /\ \/ pool' = Some(Release(Val(pool), from, to, TRUE))
       \/ pool' = Some(Release(Val(pool), from, failed, FALSE))
    /\ UNCHANGED pool_frame

\* create_scan: async with pool.acquire() ... INSERT
CreateAcquire == PoolAcquire("new", "create_hold")

\* create_scan leaves the block; then add_task and the response, or the error.
CreateRelease == PoolRelease("create_hold", "scheduled", "finished")

\* scan_worker: the first async with pool.acquire() ... UPDATE 'running'
StartAcquire == PoolAcquire("scheduled", "start_hold")

StartRelease == PoolRelease("start_hold", "capture", "finished")

\* scan_worker from async_playwright() to the end of the outer try, whatever
\* its outcome: no database statement in it.
Capture ==
    /\ Val(pool).at["capture"] > 0
    /\ pool' = Some([Val(pool) EXCEPT !.at = MoveUnit(@, "capture", "persist")])
    /\ UNCHANGED pool_frame

\* scan_worker: the second async with pool.acquire(), the terminal transaction
TxAcquire == PoolAcquire("persist", "tx_hold")

TxRelease == PoolRelease("tx_hold", "finished", "finished")

\* list_scans or get_scan: async with pool.acquire() ... SELECT
ReadAcquire == PoolAcquire("read_new", "read_hold")

ReadRelease == PoolRelease("read_hold", "read_finished", "read_finished")

InitPool ==
    /\ cookie_scans = <<>>
    /\ scanned_cookies = {}
    /\ pc = <<>>
    /\ bg_tasks = <<>>
    /\ row = <<>>
    /\ scan_error = <<>>
    /\ raw_cookies = <<>>
    /\ extracted_cookies = <<>>
    /\ raised = <<>>
    /\ tx = <<>>
    /\ clock = 0
    /\ listing = None
    /\ browser = <<>>
    /\ reader = None
    /\ probe = None
    /\ pool = Some([in_use |-> 0,
                    at     |-> [q \in Positions |->
                                   IF q = "new" THEN MaxPoolRuns
                                   ELSE IF q = "read_new" THEN MaxPoolReads ELSE 0],
                    conns  |-> [q \in Positions |-> 0]])

NextPool ==
    \/ CreateAcquire
    \/ CreateRelease
    \/ StartAcquire
    \/ StartRelease
    \/ Capture
    \/ TxAcquire
    \/ TxRelease
    \/ ReadAcquire
    \/ ReadRelease

SpecPool == InitPool /\ [][NextPool]_vars

\* The connections held by the units of work, over all positions.
RECURSIVE SumOver(_, _)
SumOver(f, qs) ==
    IF qs = {} THEN 0
    ELSE LET q == CHOOSE x \in qs : TRUE IN f[q] + SumOver(f, qs \ {q})

(* C18: the pool never hands out more than PoolMax connections; every unit of *)
(* work in a block holds exactly one connection and every other unit holds    *)
(* none (none during the capture phase, none after the unit has ended,        *)
(* whether its block ended normally or by an exception); the connections      *)
(* handed out are exactly those held; and as long as some unit has not ended, *)
(* some unit can take a step.                                                 *)
C18_PoolBounded ==
    pool # None =>
        LET p == Val(pool) IN
        /\ p.in_use <= PoolMax
        /\ p.in_use = SumOver(p.conns, Positions)
        /\ \A q \in HoldPositions : p.conns[q] = p.at[q]
        /\ \A q \in Positions \ HoldPositions : p.conns[q] = 0
        /\ (p.at["finished"] + p.at["read_finished"] < MaxPoolRuns + MaxPoolReads) =>
              ENABLED NextPool
        /\ (p.at["finished"] + p.at["read_finished"] = MaxPoolRuns + MaxPoolReads) =>
              p.in_use = 0

\* Every connection is handed out while runs are in their capture phase and
\* other units wait for a connection.
C18_Witness ==
    /\ pool # None
    /\ Val(pool).in_use = PoolMax
    /\ Val(pool).at["capture"] > 0
    /\ Val(pool).at["tx_hold"] > 0
    /\ Val(pool).at["scheduled"] + Val(pool).at["persist"] + Val(pool).at["read_new"] > 0

====
